---- MODULE Spec2Model ----
(***************************************************************************)
(* Model of ShapeRecognition (src/app/script/bb/math/shape-recognition.ts), *)
(* the hold-to-recognize event chain element of the drawing easel: stroke   *)
(* buffer, hold timer, classification attempt with optional external       *)
(* recognizer, and the built-in geometric classifier.                       *)
(*                                                                         *)
(* Number representation: the source computes on IEEE doubles.  Here a     *)
(* coordinate is an integer count of 1/Scale pixel; ratios are compared by *)
(* cross-multiplication (exact), square roots are integer square roots of  *)
(* values in coordinate units (floor, error < 1/Scale px).                  *)
(*                                                                         *)
(* The `time` field of a buffered point ({x, y, time: Date.now()}) is      *)
(* written by chainIn and read by no code path; the buffer keeps x and y.   *)
(***************************************************************************)
EXTENDS Integers, Sequences, FiniteSets, TLC

\* ------------------------------------------------------------------------
\* Program constants
\* ------------------------------------------------------------------------
holdThreshold == 500

BufferCapacity == 200

MinPoints == 10

\* coordinate units per pixel (fixed-point resolution of a `number`)
Scale == 10

\* ------------------------------------------------------------------------
\* Bounds of the model
\* ------------------------------------------------------------------------
\* milliseconds that pass in one Tick of the clock
ClockStep == 250

\* asynchronous adapter calls that may be outstanding at once
MaxPending == 1

\* samples of the long stroke beyond the buffer capacity
ExtraSamples == 3

\* the shift key is pressed or released at most this many times
MaxShiftKeys == 2

\* ------------------------------------------------------------------------
\* Values
\* ------------------------------------------------------------------------
\* JavaScript null, as a shape type / adapter result
Null == "null"

\* JavaScript null, as the recognizedShape field
NullShape == [type |-> Null]

ShapeTypes == {"circle", "rectangle", "line"}

Abs(v) == IF v < 0 THEN 0 - v ELSE v

Min2(a, b) == IF a < b THEN a ELSE b

Max2(a, b) == IF a > b THEN a ELSE b

MinOf(S) == CHOOSE m \in S : \A v \in S : m <= v

MaxOf(S) == CHOOSE m \in S : \A v \in S : m >= v

\* F(v), with v evaluated once (a `const` of the source holding a computed value)
Bind(v, F(_)) == CHOOSE r \in {F(x) : x \in {v}} : TRUE

RECURSIVE SqrtSearch(_, _, _)
SqrtSearch(n, lo, hi) ==
    IF lo >= hi THEN lo
    ELSE Bind((lo + hi + 1) \div 2,
              LAMBDA mid : IF mid * mid <= n THEN SqrtSearch(n, mid, hi)
                                             ELSE SqrtSearch(n, lo, mid - 1))

\* Math.sqrt on a non-negative integer, rounded down
Sqrt(n) == Bind(n, LAMBDA v : SqrtSearch(v, 0, 46340))

\* s[lo] + ... + s[hi], halving the range
RECURSIVE SumRange(_, _, _)
SumRange(s, lo, hi) ==
    IF lo > hi THEN 0
    ELSE IF lo = hi THEN s[lo]
    ELSE Bind((lo + hi) \div 2,
              LAMBDA mid : SumRange(s, lo, mid) + SumRange(s, mid + 1, hi))

\* s[1] + ... + s[k]
SumTo(s, k) == SumRange(s, 1, k)

\* ------------------------------------------------------------------------
\* Geometry heuristics and the built-in classifier
\* ------------------------------------------------------------------------
\* xs / ys, min / max, width / height of a non-empty point sequence
BBox(points) ==
    Bind({points[i].x : i \in DOMAIN points}, LAMBDA xs :
    Bind({points[i].y : i \in DOMAIN points}, LAMBDA ys :
    Bind(<< MinOf(xs), MaxOf(xs), MinOf(ys), MaxOf(ys) >>, LAMBDA m :
        [minX |-> m[1], maxX |-> m[2], minY |-> m[3], maxY |-> m[4],
         width |-> m[2] - m[1], height |-> m[4] - m[3]])))

\* aspect = height === 0 ? Infinity : width / height;  aspect > 5 || aspect < 0.2
Elongated(width, height) ==
    \/ height = 0
    \/ width > 5 * height
    \/ 5 * width < height

\* aspect > 0.7 && aspect < 1.3   (height # 0 here)
NearSquare(width, height) ==
    /\ 10 * width > 7 * height
    /\ 10 * width < 13 * height

\* Math.sqrt((p.x - centerX) ** 2 + (p.y - centerY) ** 2)
Dist(p, centerX, centerY) ==
    Sqrt((p.x - centerX) * (p.x - centerX) + (p.y - centerY) * (p.y - centerY))

\* centroid and the distance of every point to it, in coordinate units
RadiusStats(points) ==
    Bind(Len(points), LAMBDA n :
    Bind(SumTo([i \in 1..n |-> points[i].x], n) \div n, LAMBDA centerX :
    Bind(SumTo([i \in 1..n |-> points[i].y], n) \div n, LAMBDA centerY :
    Bind([i \in 1..n |-> Dist(points[i], centerX, centerY)], LAMBDA dist :
        [n |-> n, centerX |-> centerX, centerY |-> centerY,
         dist |-> dist, sumDist |-> SumTo(dist, n)]))))

\* variance < avgRadius * 0.5, where avgRadius = sumDist / n and
\* variance = sum |dist - avgRadius| / n; both sides multiplied by 2 n^2
LowRadiusVariance(r) ==
    2 * SumTo([i \in 1..r.n |-> Abs(r.n * r.dist[i] - r.sumDist)], r.n) < r.n * r.sumDist

isCircle(points) ==
    IF Len(points) < 20 THEN FALSE
    ELSE Bind(BBox(points), LAMBDA b :
         IF b.width < 10 * Scale \/ b.height < 10 * Scale THEN FALSE
         ELSE IF 10 * b.width < 7 * b.height \/ 10 * b.width > 13 * b.height THEN FALSE
         ELSE Bind(RadiusStats(points), LAMBDA r : LowRadiusVariance(r)))

\* corners of the bounding box b that some point is near, the threshold being
\* cornerThreshold = max(8, min(width, height) * 0.25), here times 4
CornerCount(points, b) ==
    Bind(Max2(4 * 8 * Scale, Min2(b.width, b.height)), LAMBDA cornerThreshold4 :
        LET near(v, w) == 4 * Abs(v - w) < cornerThreshold4
            hit(cx, cy) == \E i \in DOMAIN points :
                              near(points[i].x, cx) /\ near(points[i].y, cy)
            topLeft == hit(b.minX, b.minY)
            topRight == hit(b.maxX, b.minY)
            bottomLeft == hit(b.minX, b.maxY)
            bottomRight == hit(b.maxX, b.maxY)
        IN  Cardinality({c \in {<< 1, topLeft >>, << 2, topRight >>,
                                << 3, bottomLeft >>, << 4, bottomRight >>} : c[2]}))

isRectangle(points) ==
    IF Len(points) < 12 THEN FALSE
    ELSE Bind(BBox(points), LAMBDA b :
         IF b.width < 15 * Scale \/ b.height < 15 * Scale THEN FALSE
         ELSE IF b.width > 5 * b.height \/ 5 * b.width < b.height THEN FALSE
         ELSE CornerCount(points, b) >= 3)

\* the sum over the interior points of their distance to the chord from
\* start to end, length16 being the chord length in 1/16 coordinate unit
\* (`length || 1`: one pixel when the chord is empty)
TotalDeviation(points, start, dx, dy, length16) ==
    SumTo([i \in 1..Len(points) |->
             IF i = 1 \/ i = Len(points) THEN 0
             ELSE (Abs(dy * (points[i].x - start.x) - dx * (points[i].y - start.y)) * 16)
                    \div (IF length16 = 0 THEN 16 * Scale ELSE length16)],
          Len(points))

\* the instance method: no length gate, no minimum chord
isLine(points) ==
    Bind(points[1], LAMBDA start :
    Bind(points[Len(points)], LAMBDA end :
    Bind(end.x - start.x, LAMBDA dx :
    Bind(end.y - start.y, LAMBDA dy :
    Bind(Sqrt((dx * dx + dy * dy) * 256), LAMBDA length16 :
        \* avgDeviation = totalDeviation / max(1, n - 2) < 7
        TotalDeviation(points, start, dx, dy, length16)
            < 7 * Scale * Max2(1, Len(points) - 2))))))

\* variant: an elongated stroke is a line without the line test
detectShape_ElongatedIsLine(points) ==
    IF Len(points) < 10 THEN Null
    ELSE Bind(BBox(points), LAMBDA b :
         IF Elongated(b.width, b.height) THEN "line"
         ELSE IF NearSquare(b.width, b.height) /\ isCircle(points) THEN "circle"
         ELSE IF isRectangle(points) THEN "rectangle"
         ELSE IF isLine(points) THEN "line"
         ELSE Null)

\* variant: the line test comes before the rectangle test
detectShape_LineFirst(points) ==
    IF Len(points) < 10 THEN Null
    ELSE Bind(BBox(points), LAMBDA b :
         IF Elongated(b.width, b.height)
         THEN (IF isLine(points) THEN "line" ELSE Null)
         ELSE IF NearSquare(b.width, b.height) /\ isCircle(points) THEN "circle"
         ELSE IF isLine(points) THEN "line"
         ELSE IF isRectangle(points) THEN "rectangle"
         ELSE Null)

detectShape(points) ==
    IF Len(points) < 10 THEN Null
    ELSE Bind(BBox(points), LAMBDA b :
         IF Elongated(b.width, b.height)
         THEN (IF isLine(points) THEN "line" ELSE Null)
         ELSE IF NearSquare(b.width, b.height) /\ isCircle(points) THEN "circle"
         ELSE IF isRectangle(points) THEN "rectangle"
         ELSE IF isLine(points) THEN "line"
         ELSE Null)

\* variant: the parameters of every shape are its bounding box
getShapeParams_BoundingBox(type, points) ==
    IF Len(points) = 0 THEN [undefined |-> TRUE]
    ELSE Bind(BBox(points), LAMBDA b :
            [x1 |-> b.minX, y1 |-> b.minY, x2 |-> b.maxX, y2 |-> b.maxY])

\* parameters of a recognized shape; [throws |-> TRUE] when the call throws
\* (points[0] of an empty array, or the final `throw new Error`), and
\* [undefined |-> TRUE] when the fields are undefined / NaN (empty array)
getShapeParams(type, points) ==
    IF type = "line"
    THEN (IF Len(points) = 0 THEN [throws |-> TRUE]
          ELSE [x1 |-> points[1].x, y1 |-> points[1].y,
                x2 |-> points[Len(points)].x, y2 |-> points[Len(points)].y])
    ELSE IF type = "rectangle"
    THEN (IF Len(points) = 0 THEN [undefined |-> TRUE]
          ELSE Bind(BBox(points), LAMBDA b :
                  [x1 |-> b.minX, y1 |-> b.minY, x2 |-> b.maxX, y2 |-> b.maxY]))
    ELSE IF type = "circle"
    THEN (IF Len(points) = 0 THEN [undefined |-> TRUE]
          ELSE Bind(RadiusStats(points), LAMBDA r :
               Bind(r.sumDist \div r.n, LAMBDA radius :
                  [x1 |-> r.centerX - radius, y1 |-> r.centerY - radius,
                   x2 |-> r.centerX + radius, y2 |-> r.centerY + radius])))
    ELSE [throws |-> TRUE]

\* { type: shape, ...params }
MakeShape(type, params) ==
    Bind(params, LAMBDA p :
        IF "undefined" \in DOMAIN p
        THEN [type |-> type, undefined |-> TRUE]
        ELSE [type |-> type, x1 |-> p.x1, y1 |-> p.y1, x2 |-> p.x2, y2 |-> p.y2])

\* ------------------------------------------------------------------------
\* The static classifier behind the console entry point
\* ------------------------------------------------------------------------
isCircleStatic(points) ==
    IF Len(points) < 20 THEN FALSE
    ELSE Bind(BBox(points), LAMBDA b :
         IF b.width < 10 * Scale \/ b.height < 10 * Scale THEN FALSE
         ELSE IF 10 * b.width < 7 * b.height \/ 10 * b.width > 13 * b.height THEN FALSE
         ELSE Bind(RadiusStats(points), LAMBDA r : LowRadiusVariance(r)))

isRectangleStatic(points) ==
    IF Len(points) < 12 THEN FALSE
    ELSE Bind(BBox(points), LAMBDA b :
         IF b.width < 15 * Scale \/ b.height < 15 * Scale THEN FALSE
         ELSE IF b.width > 5 * b.height \/ 5 * b.width < b.height THEN FALSE
         ELSE CornerCount(points, b) >= 3)

\* the static method: at least 5 points and a chord of at least 15 pixels
isLineStatic(points) ==
    IF Len(points) < 5 THEN FALSE
    ELSE Bind(points[1], LAMBDA start :
         Bind(points[Len(points)], LAMBDA end :
         Bind(end.x - start.x, LAMBDA dx :
         Bind(end.y - start.y, LAMBDA dy :
         \* length < 15
         IF dx * dx + dy * dy < 15 * Scale * 15 * Scale THEN FALSE
         ELSE Bind(Sqrt((dx * dx + dy * dy) * 256), LAMBDA length16 :
                TotalDeviation(points, start, dx, dy, length16)
                    < 7 * Scale * Max2(1, Len(points) - 2))))))

\* what the provider's detectShape does when the static method calls it:
\* "none" when neither import yields a module with a detectShape function
ProviderOutcomes == {"none", "circle", Null, "throw"}

\* lines 463-505: the value the promise of recognizeShapeFromPoints(points)
\* settles to
recognizeShapeFromPoints(points, provider) ==
    IF Len(points) < 10 THEN Null
    ELSE IF provider \notin {"none", "throw"} THEN provider
    ELSE Bind(BBox(points), LAMBDA b :
         IF Elongated(b.width, b.height)
         THEN (IF isLineStatic(points) THEN "line" ELSE Null)
         ELSE IF NearSquare(b.width, b.height) /\ isCircleStatic(points) THEN "circle"
         ELSE IF isRectangleStatic(points) THEN "rectangle"
         ELSE IF isLineStatic(points) THEN "line"
         ELSE Null)

\* ------------------------------------------------------------------------
\* Strokes the pointer can draw (the inputs of the model), in pixels
\* ------------------------------------------------------------------------
Pt(x, y) == [x |-> x * Scale, y |-> y * Scale]

\* a tap: too few samples to classify
TapStroke == << Pt(50, 50), Pt(51, 50), Pt(52, 51) >>

\* 12 collinear samples
LineStroke == [i \in 1..12 |-> Pt(10 * (i - 1), 0)]

\* perimeter of the box (0,0)-(100,60), clockwise
RectStroke ==
    << Pt(0, 0), Pt(25, 0), Pt(50, 0), Pt(75, 0), Pt(100, 0), Pt(100, 30),
       Pt(100, 60), Pt(75, 60), Pt(50, 60), Pt(25, 60), Pt(0, 60), Pt(0, 30),
       Pt(0, 0) >>

\* 20 samples on the circle of center (100,100), radius 50, in 1/10 pixel
CircleTenths ==
    << <<1500, 1000>>, <<1476, 1155>>, <<1405, 1294>>, <<1294, 1405>>,
       <<1155, 1476>>, <<1000, 1500>>, <<845, 1476>>, <<706, 1405>>,
       <<595, 1294>>, <<524, 1155>>, <<500, 1000>>, <<524, 845>>,
       <<595, 706>>, <<706, 595>>, <<845, 524>>, <<1000, 500>>,
       <<1155, 524>>, <<1294, 595>>, <<1405, 706>>, <<1476, 845>> >>

CircleStroke ==
    [i \in 1..20 |-> [x |-> (CircleTenths[i][1] * Scale) \div 10,
                      y |-> (CircleTenths[i][2] * Scale) \div 10]]

\* a zigzag no heuristic accepts
ScribbleStroke ==
    << Pt(0, 0), Pt(40, 40), Pt(0, 40), Pt(40, 0), Pt(0, 0), Pt(40, 40),
       Pt(0, 40), Pt(40, 0), Pt(0, 0), Pt(40, 40) >>

\* a straight stroke with more samples than the buffer holds
LongStroke == [i \in 1..(BufferCapacity + ExtraSamples) |-> Pt(i, 0)]

\* 21 collinear samples from (0,0) to (200,2), left to right
Line200Stroke ==
    [i \in 1..21 |-> [x |-> 10 * (i - 1) * Scale, y |-> ((i - 1) * Scale) \div 10]]

\* the same samples from (200,2) back to (0,0), right to left
Line200RevStroke == [i \in 1..21 |-> Line200Stroke[22 - i]]

\* collinear samples from (0,0) to (200,2), one more than the buffer holds
Line200LongStroke ==
    [i \in 1..(BufferCapacity + 1) |->
        [x |-> ((i - 1) * 200 * Scale) \div BufferCapacity,
         y |-> ((i - 1) * 2 * Scale) \div BufferCapacity]]

\* perimeter of the box (0,0)-(100,60), a sample every 10 pixels, counter-
\* clockwise from the middle of the top edge
RectDenseStroke ==
    [i \in 1..33 |->
        IF i <= 6 THEN Pt(50 - 10 * (i - 1), 0)
        ELSE IF i <= 12 THEN Pt(0, 10 * (i - 6))
        ELSE IF i <= 22 THEN Pt(10 * (i - 12), 60)
        ELSE IF i <= 28 THEN Pt(100, 60 - 10 * (i - 22))
        ELSE Pt(100 - 10 * (i - 28), 0)]

\* 40 samples around the circle of center (100,100), radius 50, each moved
\* along its radius by up to 4.9 pixels, in 1/10 pixel
CircleRadialTenths ==
    << <<1549, 1000>>, <<1445, 1071>>, <<1504, 1164>>, <<1428, 1218>>,
       <<1405, 1294>>, <<1382, 1382>>, <<1270, 1372>>, <<1232, 1454>>,
       <<1170, 1522>>, <<1071, 1445>>, <<1000, 1530>>, <<925, 1474>>,
       <<845, 1476>>, <<755, 1481>>, <<730, 1372>>, <<639, 1361>>,
       <<556, 1323>>, <<598, 1205>>, <<496, 1164>>, <<526, 1075>>,
       <<500, 1000>>, <<467, 916>>, <<563, 858>>, <<546, 768>>,
       <<556, 677>>, <<681, 681>>, <<688, 571>>, <<782, 572>>,
       <<845, 524>>, <<916, 467>>, <<1000, 540>>, <<1080, 496>>,
       <<1170, 478>>, <<1205, 598>>, <<1312, 571>>, <<1339, 661>>,
       <<1405, 706>>, <<1481, 755>>, <<1437, 858>>, <<1504, 920>> >>

\* 40 samples around the same circle, x and y each moved by up to 3.5 pixels
\* (less than 5 pixels from the circle), in 1/10 pixel
CircleShakenTenths ==
    << <<1500, 980>>, <<1509, 1043>>, <<1441, 1190>>, <<1411, 1227>>,
       <<1440, 1259>>, <<1389, 1334>>, <<1259, 1370>>, <<1242, 1461>>,
       <<1120, 1456>>, <<1043, 1529>>, <<1015, 1465>>, <<957, 1459>>,
       <<825, 1511>>, <<738, 1481>>, <<741, 1420>>, <<611, 1334>>,
       <<560, 1329>>, <<534, 1227>>, <<539, 1135>>, <<541, 1043>>,
       <<535, 1000>>, <<541, 902>>, <<489, 880>>, <<589, 753>>,
       <<595, 671>>, <<681, 611>>, <<741, 560>>, <<808, 534>>,
       <<860, 559>>, <<937, 506>>, <<1015, 535>>, <<1093, 506>>,
       <<1155, 504>>, <<1207, 534>>, <<1259, 630>>, <<1354, 681>>,
       <<1420, 706>>, <<1461, 773>>, <<1511, 810>>, <<1459, 957>> >>

FromTenths(t) ==
    [i \in DOMAIN t |-> [x |-> (t[i][1] * Scale) \div 10, y |-> (t[i][2] * Scale) \div 10]]

CircleRadialStroke == FromTenths(CircleRadialTenths)

CircleShakenStroke == FromTenths(CircleShakenTenths)

\* 20 samples on the ellipse of center (100,100) and half axes 65 and 50: a
\* bounding box of 130 by 100 pixels, aspect 1.3; in 1/10 pixel
EllipseTenths ==
    << <<1650, 1000>>, <<1618, 1155>>, <<1526, 1294>>, <<1382, 1405>>,
       <<1201, 1476>>, <<1000, 1500>>, <<799, 1476>>, <<618, 1405>>,
       <<474, 1294>>, <<382, 1155>>, <<350, 1000>>, <<382, 845>>,
       <<474, 706>>, <<618, 595>>, <<799, 524>>, <<1000, 500>>,
       <<1201, 524>>, <<1382, 595>>, <<1526, 706>>, <<1618, 845>> >>

EllipseStroke == FromTenths(EllipseTenths)

\* a wide zigzag: 220 pixels long, 30 pixels high
ZigzagStroke == [i \in 1..12 |-> Pt(20 * (i - 1), IF i % 2 = 1 THEN 0 ELSE 30)]

\* a closed loop of 10 samples around a box of 30 pixels
LoopStroke ==
    << Pt(0, 0), Pt(15, 0), Pt(30, 0), Pt(30, 15), Pt(30, 30), Pt(15, 30),
       Pt(0, 30), Pt(0, 20), Pt(0, 10), Pt(0, 0) >>

\* perimeter of the box (0,0)-(100,60) in 10 samples, every corner among them
RectSparseStroke ==
    << Pt(0, 0), Pt(50, 0), Pt(100, 0), Pt(100, 30), Pt(100, 60), Pt(67, 60),
       Pt(33, 60), Pt(0, 60), Pt(0, 30), Pt(0, 0) >>

\* 12 samples on a horizontal segment of 11 pixels
DashStroke == [i \in 1..12 |-> Pt(i - 1, 0)]

Strokes ==
    [tap |-> TapStroke, line |-> LineStroke, rect |-> RectStroke,
     circle |-> CircleStroke, scribble |-> ScribbleStroke, long |-> LongStroke,
     line200 |-> Line200Stroke, line200rev |-> Line200RevStroke,
     line200long |-> Line200LongStroke,
     rectdense |-> RectDenseStroke, circleradial |-> CircleRadialStroke,
     circleshaken |-> CircleShakenStroke, zigzag |-> ZigzagStroke,
     loop |-> LoopStroke, dash |-> DashStroke, rectsparse |-> RectSparseStroke,
     ellipse |-> EllipseStroke]

StrokeNames == {"tap", "line", "rect", "scribble"}

\* ------------------------------------------------------------------------
\* Optional external recognizer: modules the runtime import may yield
\* ------------------------------------------------------------------------
\* externalRecognizer = null
NoAdapter == [kind |-> "none"]

candidates == << "@tldraw/tldraw", "@tldraw/core", "shape-recognition", "shape-recognizer" >>

\* What a loaded module exports: a detectShape function, a getShapeParams
\* function, truthy exports under the helper names (getEllipseFromPoints,
\* ...), truthy exports whose names contain ellipse / rect / line; callable:
\* those helper and named exports are functions.
Modules ==
    { [detectShape |-> TRUE,  getShapeParams |-> TRUE,  helpers |-> FALSE, named |-> FALSE,
       callable |-> TRUE],
      [detectShape |-> FALSE, getShapeParams |-> FALSE, helpers |-> TRUE,  named |-> FALSE,
       callable |-> TRUE],
      [detectShape |-> FALSE, getShapeParams |-> FALSE, helpers |-> FALSE, named |-> FALSE,
       callable |-> TRUE] }

\* modules that export detectShape, with and without getShapeParams
DetectModules ==
    { [detectShape |-> TRUE,  getShapeParams |-> TRUE,  helpers |-> FALSE, named |-> FALSE,
       callable |-> TRUE],
      [detectShape |-> TRUE,  getShapeParams |-> FALSE, helpers |-> FALSE, named |-> FALSE,
       callable |-> TRUE] }

\* modules with several capabilities at once, and modules whose helper or
\* named exports are values that are no functions (a constant lineWidth)
ProbeModules ==
    { [detectShape |-> TRUE,  getShapeParams |-> TRUE,  helpers |-> TRUE,  named |-> TRUE,
       callable |-> TRUE],
      [detectShape |-> TRUE,  getShapeParams |-> FALSE, helpers |-> FALSE, named |-> TRUE,
       callable |-> FALSE],
      [detectShape |-> FALSE, getShapeParams |-> FALSE, helpers |-> TRUE,  named |-> TRUE,
       callable |-> TRUE],
      [detectShape |-> FALSE, getShapeParams |-> FALSE, helpers |-> FALSE, named |-> TRUE,
       callable |-> TRUE],
      [detectShape |-> FALSE, getShapeParams |-> FALSE, helpers |-> TRUE,  named |-> TRUE,
       callable |-> FALSE],
      [detectShape |-> FALSE, getShapeParams |-> FALSE, helpers |-> FALSE, named |-> TRUE,
       callable |-> FALSE],
      [detectShape |-> FALSE, getShapeParams |-> FALSE, helpers |-> FALSE, named |-> FALSE,
       callable |-> TRUE] }

\* variant: the export-name scan comes first, the detectShape probe last
ProbeModule_ScanFirst(mod) ==
    IF mod.named THEN [kind |-> "scan", extParams |-> TRUE, callable |-> mod.callable]
    ELSE IF mod.helpers THEN [kind |-> "helpers", extParams |-> TRUE, callable |-> mod.callable]
    ELSE IF mod.detectShape
    THEN [kind |-> "detectShape", extParams |-> mod.getShapeParams, callable |-> TRUE]
    ELSE NoAdapter

\* lines 144-276: the adapter wired from a loaded module, NoAdapter when it
\* has no capability.  detectShape is probed with typeof === 'function', the
\* helper and named exports by truthiness (lines 158 and 229).
ProbeModule(mod) ==
    IF mod.detectShape
    THEN [kind |-> "detectShape", extParams |-> mod.getShapeParams, callable |-> TRUE]
    ELSE IF mod.helpers THEN [kind |-> "helpers", extParams |-> TRUE, callable |-> mod.callable]
    ELSE IF mod.named THEN [kind |-> "scan", extParams |-> TRUE, callable |-> mod.callable]
    ELSE NoAdapter

\* what adapter.recognize(points) can do: return a type, return null, return
\* a value that is no shape type, or throw.  The helper and scan adapters
\* wrap every helper call in try/catch and return one of the three literals;
\* calling an export that is no function throws inside the try, so such an
\* adapter returns null every time.
RecognizeOutcomes(adapter) ==
    IF adapter.kind = "detectShape"
    THEN ShapeTypes \cup {Null, "triangle", "throw"}
    ELSE IF adapter.callable THEN ShapeTypes \cup {Null}
    ELSE {Null}

\* the bounds an external parameter extractor reports
ExtParams == [x1 |-> 1, y1 |-> 2, x2 |-> 3, y2 |-> 4]

\* what adapter.getParams(type, points) can do
\*   "ext": the module's own extractor answers; "throw": it throws;
\*   "own": the adapter falls back to this.getShapeParams
GetParamsOutcomes(adapter) ==
    IF adapter.kind = "detectShape"
    THEN (IF adapter.extParams THEN {"ext", "throw"} ELSE {"own"})
    ELSE IF adapter.kind = "helpers" THEN {"ext", "throw", "own"}
    ELSE {"ext", "own"}

\* ------------------------------------------------------------------------
\* State
\* ------------------------------------------------------------------------
VARIABLES
    points,              \* this.points
    holdTimeout,         \* this.holdTimeout: a timer handle, 0 when undefined
    isHolding,           \* this.isHolding
    recognizedShape,     \* this.recognizedShape
    externalRecognizer,  \* this.externalRecognizer
    chainOut,            \* this.chainOut
    timers,              \* the runtime's pending timers: handle -> ms left
    pending,             \* recognizeShape calls suspended on the adapter's promise
    loading,             \* candidate loadExternalRecognizer awaits, 0 when finished
    pen,                 \* the pointer: the stroke it draws, the samples sent since
                         \* the buffer was last reset
    quiet,               \* ms since the last down / move / up, up to holdThreshold
    fired,               \* hold-timer callbacks run since the last down / up
    lastStep,            \* the method or callback of the engine that ran last
    calls,               \* the calls that handler made, in order
    lastIn,              \* the caller's event object after chainIn, when it ran last
    lastOut,             \* what that chainIn returned
    delivered,           \* the events that chainIn handed to chainOut
    attempt,             \* what the adapter, its extractor and the callback did in
                         \* the classification attempt that handler made
    stale,               \* a down event has reset the buffer since a classification
                         \* that is still suspended on the adapter began
    registry,            \* the modules the runtime can import
    probe,               \* the console call made last: its point list, what the
                         \* provider did and what its promise settled to
    got,                 \* what a consumer holds from getRecognizedShape(): the
                         \* calls it made since the last classification attempt
                         \* and the object the last one returned
    ref,                 \* the reference engine: an engine without adapter that
                         \* is fed the same events at the same times
    brush                \* EaselBrush: whether the pointer is pressed, whether the
                         \* pointerdown and the pointerup of its stroke were
                         \* forwarded to the engine, whether the shift key is
                         \* pressed and how often it was pressed or released

vars == << points, holdTimeout, isHolding, recognizedShape, externalRecognizer,
           chainOut, timers, pending, loading, pen, quiet, fired,
           lastStep, calls, lastIn, lastOut, delivered, attempt, stale, registry, ref,
           probe, got, brush >>

\* no console call was made
NoProbe == [path |-> << >>, provider |-> "none", returned |-> "unset", settled |-> "unset"]

\* the consumer has not read the shape since the last classification attempt
NotRead == [reads |-> 0, value |-> NullShape]

NoEvent == [type |-> "none"]

\* no classification attempt was made
NoAttempt == [ext |-> "none", gp |-> "unused", cb |-> FALSE, raised |-> FALSE]

\* the attempt is suspended on the adapter's promise
SuspendedAttempt == [ext |-> "pending", gp |-> "unused", cb |-> FALSE, raised |-> FALSE]

\* the reference engine is not followed (the adapter has answered a call
\* otherwise than by throwing)
RefOff == [mode |-> "off", shape |-> NullShape, owed |-> << >>, ok |-> TRUE]

\* the reference engine as its constructor leaves it.  mode: "sync" while
\* every adapter call threw before another event was handled, "late" once
\* one was left suspended; shape: its recognizedShape; owed: the callbacks it
\* has made and the engine has not yet; ok: the engine's callbacks so far
\* were the reference engine's, in order.
RefStart == [mode |-> "sync", shape |-> NullShape, owed |-> << >>, ok |-> TRUE]

\* EaselBrush before the first pointer event
BrushIdle == [pressed |-> FALSE, downSent |-> FALSE, upSent |-> FALSE,
              shift |-> FALSE, keys |-> 0]

\* the engine as the constructor leaves it, the pointer about to draw one of
\* the given strokes, the runtime able to import the given modules
InitWith(strokes, reference, modules) ==
    /\ points = << >>
    /\ holdTimeout = 0
    /\ isHolding = FALSE
    /\ recognizedShape = NullShape
    /\ externalRecognizer = NoAdapter
    /\ chainOut = "undefined"
    /\ timers = << >>
    /\ pending = 0
    /\ loading = 1
    /\ pen \in {[stroke |-> s, sent |-> 0] : s \in strokes}
    /\ quiet = 0
    /\ fired = 0
    /\ lastStep = "new"
    /\ calls = << >>
    /\ lastIn = NoEvent
    /\ lastOut = NoEvent
    /\ delivered = << >>
    /\ attempt = NoAttempt
    /\ stale = FALSE
    /\ ref = reference
    /\ registry = modules
    /\ probe = NoProbe
    /\ got = NotRead
    /\ brush = BrushIdle

Init == InitWith(StrokeNames, RefOff, Modules)

\* ------------------------------------------------------------------------
\* recognizeShape
\* ------------------------------------------------------------------------
Call(op, arg) == [op |-> op, arg |-> arg]

\* lines 450-452: what getRecognizedShape() returns, stored being the field
getRecognizedShape(stored) == stored

\* this.onShapeRecognized(type), with what the accessor returns to a callback
\* that reads it at that moment (as the callback of EaselBrush does)
Notify(type, stored) ==
    [op |-> "onShapeRecognized", arg |-> type, seen |-> getRecognizedShape(stored)]

\* the types the callback was invoked with, in order
Callbacks(cs) ==
    Bind(cs, LAMBDA c :
        [i \in 1..Cardinality({j \in DOMAIN c : c[j].op = "onShapeRecognized"}) |->
            c[CHOOSE j \in DOMAIN c :
                /\ c[j].op = "onShapeRecognized"
                /\ Cardinality({k \in 1..j : c[k].op = "onShapeRecognized"}) = i].arg])

\* lines 99-110: the built-in classifier on the current buffer
InternalFallback(pts) ==
    Bind(detectShape(pts), LAMBDA shape :
        IF shape # Null
        THEN Bind(MakeShape(shape, getShapeParams(shape, pts)), LAMBDA stored :
                [shape |-> stored,
                 calls |-> << Call("detectShape", ""), Call("getShapeParams", shape),
                              Notify(shape, stored) >>])
        ELSE [shape |-> NullShape, calls |-> << Call("detectShape", "") >>])

\* variant: the callback is notified before the shape is stored
ExternalPath_NotifiesBeforeStore(res, gp, cbThrows, pts, shapeNow) ==
    IF res = "throw" \/ res = Null
    THEN [returned |-> FALSE, threw |-> res = "throw", shape |-> shapeNow, calls |-> << >>]
    ELSE Bind(IF gp = "ext" THEN ExtParams
              ELSE IF gp = "throw" THEN [throws |-> TRUE]
              ELSE getShapeParams(res, pts), LAMBDA params :
             IF "throws" \in DOMAIN params
             THEN [returned |-> FALSE, threw |-> TRUE, shape |-> shapeNow,
                   calls |-> << Call("getParams", res) >>]
             ELSE [returned |-> ~cbThrows, threw |-> cbThrows,
                   shape |-> MakeShape(res, params),
                   calls |-> << Call("getParams", res), Notify(res, shapeNow) >>])

\* lines 83-92: the try block from `await recognize(points)` on, given the
\* adapter's answer res, the behaviour gp of its parameter extractor and
\* whether the callback throws.  returned: the `return` of line 91 was
\* reached; threw: an exception left the block.
ExternalPath(res, gp, cbThrows, pts, shapeNow) ==
    IF res = "throw" \/ res = Null
    THEN [returned |-> FALSE, threw |-> res = "throw", shape |-> shapeNow, calls |-> << >>]
    ELSE Bind(IF gp = "ext" THEN ExtParams
              ELSE IF gp = "throw" THEN [throws |-> TRUE]
              ELSE getShapeParams(res, pts), LAMBDA params :
             IF "throws" \in DOMAIN params
             THEN [returned |-> FALSE, threw |-> TRUE, shape |-> shapeNow,
                   calls |-> << Call("getParams", res) >>]
             ELSE Bind(MakeShape(res, params), LAMBDA stored :
                    [returned |-> ~cbThrows, threw |-> cbThrows, shape |-> stored,
                     calls |-> << Call("getParams", res), Notify(res, stored) >>]))

\* variant: the catch block rethrows
Escapes_Rethrows(threw) == threw

\* lines 93-96: whether an exception raised in the try block leaves
\* recognizeShape (the catch block is empty)
Escapes(threw) == FALSE

\* variant: a failed classification keeps the stored shape
AfterRecognize_KeepsPrevious(res, gp, cbThrows, pts, shapeNow, own) ==
    Bind(ExternalPath(res, gp, cbThrows, pts, shapeNow), LAMBDA ext :
        IF ext.returned
        THEN [shape |-> ext.shape, calls |-> ext.calls, raised |-> FALSE]
        ELSE [shape |-> IF own.shape = NullShape THEN ext.shape ELSE own.shape,
              calls |-> ext.calls \o own.calls, raised |-> FALSE])

\* lines 85-110: the rest of recognizeShape once the adapter has answered;
\* own is InternalFallback(pts), what lines 99-110 do when they are reached.
\* raised: recognizeShape ended with an exception of the try block.
AfterRecognize(res, gp, cbThrows, pts, shapeNow, own) ==
    Bind(ExternalPath(res, gp, cbThrows, pts, shapeNow), LAMBDA ext :
        IF ext.returned
        THEN [shape |-> ext.shape, calls |-> ext.calls, raised |-> FALSE]
        ELSE IF Escapes(ext.threw)
        THEN [shape |-> ext.shape, calls |-> ext.calls, raised |-> TRUE]
        ELSE [shape |-> own.shape, calls |-> ext.calls \o own.calls, raised |-> FALSE])

\* what the adapter (answer res), its extractor (gp) and the callback did in
\* an attempt whose outcome is r
AttemptOf(res, gp, cbThrows, r) ==
    Bind(r.calls, LAMBDA c :
        LET extracted == c # << >> /\ c[1].op = "getParams"
            notified == extracted /\ Len(c) >= 2 /\ c[2].op = "onShapeRecognized"
        IN  [ext |-> res,
             gp |-> IF ~extracted THEN "unused" ELSE IF notified THEN gp ELSE "throw",
             cb |-> notified /\ cbThrows,
             raised |-> r.raised])

\* ------------------------------------------------------------------------
\* The reference engine: recognizeShape without adapter (lines 99-110)
\* ------------------------------------------------------------------------
IsPrefix(a, b) == Len(a) <= Len(b) /\ a = SubSeq(b, 1, Len(a))

\* the reference engine classifies: own is InternalFallback of its buffer
RefAttempt(rf, own) ==
    [rf EXCEPT !.shape = own.shape, !.owed = @ \o Callbacks(own.calls)]

\* the engine has made the callbacks cbs, left of its attempts still being
\* suspended.  The engine can match the reference engine only while each of
\* the callbacks owed belongs to a suspended attempt.
RefConsume(rf, cbs, left) ==
    IF ~rf.ok THEN rf
    ELSE IF IsPrefix(cbs, rf.owed) /\ Len(rf.owed) - Len(cbs) <= left
    THEN [rf EXCEPT !.owed = SubSeq(rf.owed, Len(cbs) + 1, Len(rf.owed))]
    ELSE [rf EXCEPT !.shape = NullShape, !.owed = << >>, !.ok = FALSE]

\* the hold timer fired and the engine's attempt ended within the callback,
\* the adapter answering res ("none": no adapter), with outcome r
RefSync(rf, res, own, r, left) ==
    IF rf.mode = "off" \/ ~rf.ok THEN rf
    ELSE IF res \notin {"throw", "none"} THEN RefOff
    ELSE RefConsume(RefAttempt(rf, own), Callbacks(r.calls), left)

\* the hold timer fired and the engine's attempt is suspended on the adapter
RefDefer(rf, own) ==
    IF rf.mode = "off" \/ ~rf.ok THEN rf
    ELSE [RefAttempt(rf, own) EXCEPT !.mode = "late"]

\* a suspended attempt of the engine resumed, the adapter answering res,
\* with outcome r
RefResume(rf, res, r, left) ==
    IF rf.mode = "off" \/ ~rf.ok THEN rf
    ELSE IF res # "throw" THEN RefOff
    ELSE RefConsume(rf, Callbacks(r.calls), left)

\* ------------------------------------------------------------------------
\* chainIn
\* ------------------------------------------------------------------------
\* BB.copyObj: a deep copy, a new object with the fields of obj
CopyObj(obj) == [k \in DOMAIN obj |-> obj[k]]

\* chainIn returning null
NullEvent == [null |-> TRUE]

\* variant: an event chainIn does not handle is swallowed
ChainInResult_SwallowsOther(event) ==
    IF event.type \in {"down", "move", "up"} THEN CopyObj(event) ELSE NullEvent

\* lines 43 and 73: the value chainIn returns
ChainInResult(event) == CopyObj(event)

\* variant: chainIn also calls the registered chainOut
ChainInDelivered_CallsSink(sink, event) ==
    IF sink = "sink" THEN << CopyObj(event) >> ELSE << >>

\* lines 42-74: the events chainIn hands to the registered chainOut (none)
ChainInDelivered(sink, event) == << >>

\* clearTimeout(handle): no effect when the handle is undefined or stale
ClearTimeout(tm, handle) == [h \in DOMAIN tm \ {handle} |-> tm[h]]

\* the handle setTimeout returns
NewHandle(tm) == MinOf((1..(Cardinality(DOMAIN tm) + 1)) \ DOMAIN tm)

\* setTimeout(callback, ms)
SetTimeout(tm, ms) == [h \in DOMAIN tm \cup {NewHandle(tm)} |->
                         IF h \in DOMAIN tm THEN tm[h] ELSE ms]

\* variant: the previous timer is not cleared
Rearm_NoClear(tm, handle) ==
    [timers |-> SetTimeout(tm, holdThreshold), handle |-> NewHandle(tm)]

\* lines 50-54: clearTimeout(this.holdTimeout); this.holdTimeout = setTimeout(...)
Rearm(tm, handle) ==
    LET cleared == ClearTimeout(tm, handle)
    IN  [timers |-> SetTimeout(cleared, holdThreshold), handle |-> NewHandle(cleared)]

\* variant: a move re-arms the timer whether or not the hold has fired
MoveTimers_IgnoresHolding(tm, handle, holding) == Rearm(tm, handle)

\* variant: a move starts a timer only when none is pending
MoveTimers_KeepsRunning(tm, handle, holding) ==
    IF ~holding /\ handle \notin DOMAIN tm
    THEN Rearm(tm, handle) ELSE [timers |-> tm, handle |-> handle]

\* lines 60-66: a move re-arms the timer unless the hold has fired
MoveTimers(tm, handle, holding) ==
    IF ~holding THEN Rearm(tm, handle) ELSE [timers |-> tm, handle |-> handle]

\* variant: up leaves the timer running
UpTimers_NoClear(tm, handle) == tm

\* line 68: clearTimeout(this.holdTimeout)
UpTimers(tm, handle) == ClearTimeout(tm, handle)

\* variant: beyond the capacity the newest point is dropped
PushPoint_DropsNewest(pts, p) ==
    IF Len(pts) >= BufferCapacity THEN pts ELSE Append(pts, p)

\* lines 56-59: push, then drop the oldest point beyond the capacity
PushPoint(pts, p) ==
    LET pushed == Append(pts, p)
    IN  IF Len(pushed) > BufferCapacity THEN Tail(pushed) ELSE pushed

\* what every chainIn call does besides its branch
ChainInFrame(event, step) ==
    /\ lastStep' = step
    /\ lastIn' = event
    /\ lastOut' = ChainInResult(event)
    /\ delivered' = ChainInDelivered(chainOut, event)
    /\ calls' = << >>
    /\ attempt' = NoAttempt
    /\ stale' = (pending > 0 /\ (stale \/ step = "down"))
    /\ UNCHANGED << externalRecognizer, chainOut, pending, loading, ref, registry,
                    probe, got >>

DownEvent(p) == [type |-> "down", x |-> p.x, y |-> p.y, pressure |-> 1]

MoveEvent(p) == [type |-> "move", x |-> p.x, y |-> p.y, pressure |-> 1]

UpEvent == [type |-> "up", isCoalesced |-> FALSE]

LineEvent == [type |-> "line", x0 |-> 0, y0 |-> 0, x1 |-> 1, y1 |-> 1]

\* variant: a down event clears the recognized shape
ShapeAfterDown_Clears(shape) == NullShape

\* lines 47-54: this.recognizedShape after a down event (not assigned)
ShapeAfterDown(shape) == shape

\* lines 47-54: the down branch of chainIn, the pointer starting stroke s
DownBranch(s) ==
    LET p == Strokes[s][1]
        armed == Rearm(timers, holdTimeout)
    IN  /\ points' = << p >>
        /\ isHolding' = FALSE
        /\ timers' = armed.timers
        /\ holdTimeout' = armed.handle
        /\ pen' = [stroke |-> s, sent |-> 1]
        /\ quiet' = 0
        /\ fired' = 0
        /\ recognizedShape' = ShapeAfterDown(recognizedShape)
        /\ ChainInFrame(DownEvent(p), "down")

\* chainIn({type: 'down', x, y}) called directly
Down(s) == DownBranch(s) /\ UNCHANGED brush

\* lines 55-66: the move branch of chainIn, the pointer at the next sample of
\* its stroke
MoveBranch ==
    /\ pen.sent < Len(Strokes[pen.stroke])
    /\ LET p == Strokes[pen.stroke][pen.sent + 1]
           armed == MoveTimers(timers, holdTimeout, isHolding)
       IN  /\ points' = PushPoint(points, p)
           /\ timers' = armed.timers
           /\ holdTimeout' = armed.handle
           /\ pen' = [pen EXCEPT !.sent = @ + 1]
           /\ quiet' = 0
           /\ UNCHANGED << isHolding, fired, recognizedShape >>
           /\ ChainInFrame(MoveEvent(p), "move")

\* chainIn({type: 'move', x, y}) called directly
Move == MoveBranch /\ UNCHANGED brush

\* lines 67-71: the up branch of chainIn; the pointer's next samples start
\* its stroke anew
UpBranch ==
    /\ timers' = UpTimers(timers, holdTimeout)
    /\ isHolding' = FALSE
    /\ points' = << >>
    /\ quiet' = 0
    /\ fired' = 0
    /\ pen' = [pen EXCEPT !.sent = 0]
    /\ UNCHANGED << holdTimeout, recognizedShape >>
    /\ ChainInFrame(UpEvent, "up")

\* chainIn({type: 'up'}) called directly
Up == UpBranch /\ UNCHANGED brush

\* variant: an event of any other type re-arms the hold timer as a move does
OtherTimers_Rearms(tm, handle) == Rearm(tm, handle)

\* lines 47-72: none of the three branches is taken, no timer call is made
OtherTimers(tm, handle) == [timers |-> tm, handle |-> handle]

\* chainIn of an event that is neither down, move nor up
Other ==
    LET kept == OtherTimers(timers, holdTimeout)
    IN  /\ timers' = kept.timers
        /\ holdTimeout' = kept.handle
        /\ UNCHANGED << points, isHolding, pen, quiet, fired, recognizedShape, brush >>
        /\ ChainInFrame(LineEvent, "other")

\* setChainOut(func)
SetChainOut ==
    /\ chainOut' = "sink"
    /\ lastStep' = "setChainOut"
    /\ calls' = << >>
    /\ lastIn' = NoEvent
    /\ lastOut' = NoEvent
    /\ delivered' = << >>
    /\ attempt' = NoAttempt
    /\ stale' = (stale /\ pending > 0)
    /\ UNCHANGED << points, holdTimeout, isHolding, recognizedShape, externalRecognizer,
                    timers, pending, loading, pen, quiet, fired, ref, registry, brush,
                    probe, got >>

\* ------------------------------------------------------------------------
\* The hold timer and the classification attempt
\* ------------------------------------------------------------------------
\* time passes: every pending timer comes ClockStep ms closer to being due
Tick ==
    /\ timers' = [h \in DOMAIN timers |-> Max2(0, timers[h] - ClockStep)]
    /\ quiet' = Min2(holdThreshold, quiet + ClockStep)
    /\ UNCHANGED << points, holdTimeout, isHolding, recognizedShape, externalRecognizer,
                    chainOut, pending, loading, pen, fired,
                    lastStep, calls, lastIn, lastOut, delivered, attempt, stale, ref,
                    registry, brush, probe, got >>

\* whether adapter.recognize may answer with a promise that is still pending
\* when the timer callback returns
MayDefer(adapter) == adapter.kind = "detectShape" /\ pending < MaxPending

\* variant: the length gate is missing
TooFewPoints_NoGate(pts) == FALSE

\* variant: the length gate is off by one
TooFewPoints_OffByOne(pts) == Len(pts) <= MinPoints

\* line 78: if (this.points.length < 10) return
TooFewPoints(pts) == Len(pts) < MinPoints

\* lines 76-111 up to the first suspension: recognizeShape as called by the
\* timer callback
RecognizeShape ==
    IF TooFewPoints(points)
    THEN /\ calls' = << >>
         /\ attempt' = NoAttempt
         /\ UNCHANGED << recognizedShape, pending, ref >>
    ELSE \E own \in {InternalFallback(points)} :
         IF externalRecognizer # NoAdapter
         THEN \/ /\ MayDefer(externalRecognizer)
                 /\ pending' = pending + 1
                 /\ calls' = << Call("recognize", "") >>
                 /\ attempt' = SuspendedAttempt
                 /\ ref' = RefDefer(ref, own)
                 /\ UNCHANGED recognizedShape
              \/ \E res \in RecognizeOutcomes(externalRecognizer),
                    gp \in GetParamsOutcomes(externalRecognizer),
                    cbThrows \in BOOLEAN :
                   \E r \in {AfterRecognize(res, gp, cbThrows, points, recognizedShape, own)} :
                     /\ recognizedShape' = r.shape
                     /\ calls' = << Call("recognize", "") >> \o r.calls
                     /\ attempt' = AttemptOf(res, gp, cbThrows, r)
                     /\ ref' = RefSync(ref, res, own, r, pending)
                     /\ UNCHANGED pending
         ELSE /\ recognizedShape' = own.shape
              /\ calls' = own.calls
              /\ attempt' = NoAttempt
              /\ ref' = RefSync(ref, "none", own, own, pending)
              /\ UNCHANGED pending

\* lines 51-54 / 62-65: the callback of the hold timer with handle h
TimerFire(h) ==
    /\ h \in DOMAIN timers
    /\ timers[h] = 0
    /\ timers' = [k \in DOMAIN timers \ {h} |-> timers[k]]
    /\ isHolding' = TRUE
    /\ RecognizeShape
    /\ fired' = Min2(2, fired + 1)
    /\ lastStep' = "timer"
    /\ lastIn' = NoEvent
    /\ lastOut' = NoEvent
    /\ delivered' = << >>
    /\ stale' = (stale /\ pending > 0)
    /\ got' = NotRead
    /\ UNCHANGED << points, holdTimeout, externalRecognizer, chainOut, loading,
                    pen, quiet, registry, brush, probe >>

\* variant: the answer to a classification that began before the buffer was
\* reset is dropped
ResumedAnswer_DropsStale(res, old) == IF old THEN Null ELSE res

\* lines 83-85: the value recognizeShape resumes with, res being what the
\* adapter's promise settled to; old: a down event has reset the buffer since
\* the call (not looked at)
ResumedAnswer(res, old) == res

\* the adapter's promise settles and a suspended recognizeShape resumes
ResolvePending ==
    /\ pending > 0
    /\ \E own \in {InternalFallback(points)} :
         \E res \in RecognizeOutcomes(externalRecognizer),
            gp \in GetParamsOutcomes(externalRecognizer),
            cbThrows \in BOOLEAN :
           \E r \in {AfterRecognize(ResumedAnswer(res, stale), gp, cbThrows, points,
                                    recognizedShape, own)} :
             /\ recognizedShape' = r.shape
             /\ calls' = r.calls
             /\ attempt' = AttemptOf(res, gp, cbThrows, r)
             /\ ref' = RefResume(ref, res, r, pending - 1)
    /\ pending' = pending - 1
    /\ UNCHANGED stale
    /\ lastStep' = "resolve"
    /\ lastIn' = NoEvent
    /\ lastOut' = NoEvent
    /\ delivered' = << >>
    /\ got' = NotRead
    /\ UNCHANGED << points, holdTimeout, isHolding, externalRecognizer, chainOut,
                    timers, loading, pen, quiet, fired, registry, brush, probe >>

\* ------------------------------------------------------------------------
\* loadExternalRecognizer
\* ------------------------------------------------------------------------
ImportFailed == [failed |-> TRUE]

\* variant: the loop goes on to the next candidate after adopting one
NextCandidate_KeepsProbing(i, adopted) ==
    IF i < Len(candidates) THEN i + 1 ELSE 0

\* lines 126, 150, 211, 274: the candidate awaited next, i being the one that
\* has just settled; 0 when loadExternalRecognizer has returned
NextCandidate(i, adopted) ==
    IF adopted THEN 0
    ELSE IF i < Len(candidates) THEN i + 1
    ELSE 0

\* lines 126-286: the import of the awaited candidate settles
LoadStep ==
    /\ loading \in 1..Len(candidates)
    /\ \E mod \in registry \cup {ImportFailed} :
         LET adapter == IF mod = ImportFailed THEN NoAdapter ELSE ProbeModule(mod)
         IN  /\ loading' = NextCandidate(loading, adapter # NoAdapter)
             /\ externalRecognizer' =
                    IF adapter # NoAdapter THEN adapter
                    ELSE IF loading' = 0 THEN NoAdapter
                    ELSE externalRecognizer
    /\ UNCHANGED << points, holdTimeout, isHolding, recognizedShape, chainOut,
                    timers, pending, pen, quiet, fired,
                    lastStep, calls, lastIn, lastOut, delivered, attempt, stale, ref,
                    registry, brush, probe, got >>

\* ------------------------------------------------------------------------
\* The console entry point and the accessor
\* ------------------------------------------------------------------------
\* KL.recognizeShape(path): the static method is called and the promise it
\* returns is handed back; provider: what the provider's detectShape does
ConsoleRecognize(path, provider) ==
    /\ probe' = [path |-> path, provider |-> provider, returned |-> "promise",
                 settled |-> recognizeShapeFromPoints(path, provider)]
    /\ UNCHANGED << points, holdTimeout, isHolding, recognizedShape, externalRecognizer,
                    chainOut, timers, pending, loading, pen, quiet, fired,
                    lastStep, calls, lastIn, lastOut, delivered, attempt, stale, ref,
                    registry, brush, got >>

\* variant: reading the shape consumes it
ShapeAfterRead_Consumes(stored) == NullShape

\* lines 450-452: this.recognizedShape after getRecognizedShape() (not assigned)
ShapeAfterRead(stored) == stored

\* a consumer calls getRecognizedShape()
GetRecognizedShape ==
    /\ got' = [reads |-> Min2(2, got.reads + 1),
               value |-> getRecognizedShape(recognizedShape)]
    /\ recognizedShape' = ShapeAfterRead(recognizedShape)
    /\ UNCHANGED << points, holdTimeout, isHolding, externalRecognizer,
                    chainOut, timers, pending, loading, pen, quiet, fired,
                    lastStep, calls, lastIn, lastOut, delivered, attempt, stale, ref,
                    registry, brush, probe >>

\* line 451: this.recognizedShape once the consumer has written to the object
\* the accessor returned, which is the object the field refers to
AfterConsumerWrite(stored, written) == written

\* the consumer assigns to the x1 field of the object it holds
ConsumerWrite ==
    /\ got.reads >= 1
    /\ "x1" \in DOMAIN got.value
    /\ got.value.x1 # 0 - Scale
    /\ got' = [got EXCEPT !.value.x1 = 0 - Scale]
    /\ recognizedShape' = AfterConsumerWrite(recognizedShape, got'.value)
    /\ UNCHANGED << points, holdTimeout, isHolding, externalRecognizer,
                    chainOut, timers, pending, loading, pen, quiet, fired,
                    lastStep, calls, lastIn, lastOut, delivered, attempt, stale, ref,
                    registry, brush, probe >>

\* ------------------------------------------------------------------------
\* EaselBrush.onExplodedPointer: the pointer events forwarded to the engine
\* ------------------------------------------------------------------------
\* line 106: if (!shiftIsPressed && this.onShapeDetected), a callback being
\* registered; shift: easel.keyListener.isPressed('shift')
Forwarded(type, shift) == ~shift

\* the event is not forwarded: the engine is not called, the pointer moves on
Withheld(sent) ==
    /\ pen' = [pen EXCEPT !.sent = sent]
    /\ UNCHANGED << points, holdTimeout, isHolding, recognizedShape, externalRecognizer,
                    chainOut, timers, pending, loading, quiet, fired,
                    lastStep, calls, lastIn, lastOut, delivered, attempt, stale, ref,
                    registry, probe, got >>

\* the shift key is pressed or released
ShiftKey ==
    /\ brush.keys < MaxShiftKeys
    /\ brush' = [brush EXCEPT !.shift = ~@, !.keys = @ + 1]
    /\ Withheld(pen.sent)

\* lines 115-121: a pointerdown of the left button, starting stroke s
PointerDown(s) ==
    /\ ~brush.pressed
    /\ brush' = [brush EXCEPT !.pressed = TRUE,
                              !.downSent = Forwarded("pointerdown", brush.shift),
                              !.upSent = FALSE]
    /\ IF Forwarded("pointerdown", brush.shift) THEN DownBranch(s) ELSE Withheld(1)

\* lines 122-128: a pointermove with the left button held
PointerMove ==
    /\ brush.pressed
    /\ pen.sent < Len(Strokes[pen.stroke])
    /\ UNCHANGED brush
    /\ IF Forwarded("pointermove", brush.shift) THEN MoveBranch
       ELSE Withheld(pen.sent + 1)

\* lines 129-137: the pointerup that ends the stroke
PointerUp ==
    /\ brush.pressed
    /\ brush' = [brush EXCEPT !.pressed = FALSE,
                              !.upSent = Forwarded("pointerup", brush.shift)]
    /\ IF Forwarded("pointerup", brush.shift) THEN UpBranch ELSE Withheld(0)

\* ------------------------------------------------------------------------
\* Specification
\* ------------------------------------------------------------------------
Next ==
    \/ \E s \in StrokeNames : Down(s)
    \/ Move
    \/ Up
    \/ Other
    \/ SetChainOut
    \/ Tick
    \/ \E h \in DOMAIN timers : TimerFire(h)
    \/ ResolvePending
    \/ LoadStep

Spec == Init /\ [][Next]_vars

\* one long stroke, drawn past the capacity of the buffer
CapInit == InitWith({"long"}, RefOff, Modules)

CapNext ==
    \/ Down("long")
    \/ Move
    \/ Up
    \/ Tick
    \/ \E h \in DOMAIN timers : TimerFire(h)

CapSpec == CapInit /\ [][CapNext]_vars

\* one stroke around a box, the runtime offering modules with a detectShape
\* export, the engine next to the reference engine
DetectInit == InitWith({"rect"}, RefStart, DetectModules)

DetectNext ==
    \/ Down("rect")
    \/ Move
    \/ Up
    \/ Tick
    \/ \E h \in DOMAIN timers : TimerFire(h)
    \/ ResolvePending
    \/ LoadStep

DetectSpec == DetectInit /\ [][DetectNext]_vars

\* the strokes the classifiers are tried on
ClassifyStrokes ==
    {"tap", "line", "rect", "circle", "scribble", "line200", "line200rev",
     "line200long", "rectdense", "rectsparse", "circleradial", "circleshaken", "zigzag", "loop",
     "dash", "ellipse"}

\* the engine after the down event and k - 1 move events of one of these
\* strokes and holdThreshold ms without an event, every import having failed
HeldInit ==
    \E s \in ClassifyStrokes : \E k \in 1..Len(Strokes[s]) :
        /\ points = SubSeq(Strokes[s], Max2(1, k - BufferCapacity + 1), k)
        /\ holdTimeout = 1
        /\ isHolding = FALSE
        /\ recognizedShape = NullShape
        /\ externalRecognizer = NoAdapter
        /\ chainOut = "undefined"
        /\ timers = << 0 >>
        /\ pending = 0
        /\ loading = 0
        /\ pen = [stroke |-> s, sent |-> k]
        /\ quiet = holdThreshold
        /\ fired = 0
        /\ lastStep = IF k = 1 THEN "down" ELSE "move"
        /\ calls = << >>
        /\ lastIn = (IF k = 1 THEN DownEvent(Strokes[s][k]) ELSE MoveEvent(Strokes[s][k]))
        /\ lastOut = lastIn
        /\ delivered = << >>
        /\ attempt = NoAttempt
        /\ stale = FALSE
        /\ ref = RefOff
        /\ registry = {}
        /\ probe = NoProbe
        /\ got = NotRead
        /\ brush = BrushIdle

\* the hold timer fires on the buffered points; the console entry point is
\* given the same points
HeldNext ==
    \/ \E h \in DOMAIN timers : TimerFire(h)
    \/ \E provider \in ProviderOutcomes : ConsoleRecognize(points, provider)

ClassifySpec == HeldInit /\ [][HeldNext]_vars

\* one stroke around a box, no module to import, a consumer of the accessor
AccessInit == InitWith({"rect"}, RefOff, {})

AccessNext ==
    \/ Down("rect")
    \/ Move
    \/ Up
    \/ Tick
    \/ \E h \in DOMAIN timers : TimerFire(h)
    \/ LoadStep
    \/ GetRecognizedShape
    \/ ConsumerWrite

AccessSpec == AccessInit /\ [][AccessNext]_vars

\* one stroke, and one module that every successful import yields
ProbeInit == \E mod \in ProbeModules : InitWith({"line"}, RefOff, {mod})

ProbeNext ==
    \/ Down("line")
    \/ Move
    \/ Tick
    \/ \E h \in DOMAIN timers : TimerFire(h)
    \/ ResolvePending
    \/ LoadStep

ProbeSpec == ProbeInit /\ [][ProbeNext]_vars

\* an engine that never receives a down event: move, up and other events only
IdleInit == InitWith({"line", "rect"}, RefOff, {})

IdleNext ==
    \/ Move
    \/ Up
    \/ Other
    \/ Tick
    \/ \E h \in DOMAIN timers : TimerFire(h)
    \/ LoadStep

IdleSpec == IdleInit /\ [][IdleNext]_vars

\* the engine behind EaselBrush: one pointer and the shift key
BrushInit == InitWith({"line"}, RefOff, {})

BrushNext ==
    \/ ShiftKey
    \/ PointerDown("line")
    \/ PointerMove
    \/ PointerUp
    \/ Tick
    \/ \E h \in DOMAIN timers : TimerFire(h)
    \/ LoadStep

BrushSpec == BrushInit /\ [][BrushNext]_vars

\* the hold timer is served and time does not stop
FairSpec ==
    /\ Spec
    /\ WF_vars(Tick)
    /\ WF_vars(\E h \in DOMAIN timers : TimerFire(h))

\* ------------------------------------------------------------------------
\* Properties
\* ------------------------------------------------------------------------
ChainInSteps == {"down", "move", "up", "other"}

\* the event the caller passed to the chainIn call that ran last
SentEvent ==
    IF lastStep = "down" THEN DownEvent(Strokes[pen.stroke][pen.sent])
    ELSE IF lastStep = "move" THEN MoveEvent(Strokes[pen.stroke][pen.sent])
    ELSE IF lastStep = "up" THEN UpEvent
    ELSE LineEvent

\* the state is the one chainIn left: no time has passed since
JustAfter(step) == lastStep = step /\ quiet = 0

NoTimerPending == DOMAIN timers = {}

\* exactly one timer is pending, it is the one this.holdTimeout names and it
\* has the full threshold to run
FreshTimerPending ==
    /\ DOMAIN timers = {holdTimeout}
    /\ timers[holdTimeout] = holdThreshold

\* the step is a run of the hold-timer callback
IsTimerStep == lastStep' = "timer" /\ DOMAIN timers' # DOMAIN timers

\* C1: chainIn returns, for every event type and in every engine state, a
\* non-null event whose fields equal those of the event passed in, and the
\* caller's event object is left as it was.
C1_PassThrough ==
    lastStep \in ChainInSteps =>
        /\ lastOut # NullEvent
        /\ lastOut = SentEvent
        /\ lastIn = SentEvent

C1_Witness ==
    /\ lastStep = "other"
    /\ lastOut = LineEvent
    /\ isHolding
    /\ pending > 0

\* C2 as stated: with a sink registered by setChainOut, each chainIn call
\* delivers its event to the sink exactly once within the call.
C2_DeliveredToSink ==
    (chainOut = "sink" /\ lastStep \in ChainInSteps) => delivered = << SentEvent >>

\* C2 amended: chainIn never calls the registered sink; with a sink
\* registered each event is handed on exactly once, as the value the chainIn
\* call returns, whatever classification is pending.
C2_ReturnedNotDelivered ==
    (chainOut = "sink" /\ lastStep \in ChainInSteps) =>
        /\ delivered = << >>
        /\ lastOut = SentEvent

C2_Witness ==
    /\ chainOut = "sink"
    /\ lastStep = "move"
    /\ pending > 0
    /\ delivered = << >>
    /\ lastOut = SentEvent

\* C3: in one stroke the hold-timer callback runs at most once; once the
\* engine is Holding no timer is pending, and a move then still appends its
\* point.
C3_OneHoldPerStroke ==
    /\ fired <= 1
    /\ isHolding => NoTimerPending
    /\ (JustAfter("move") /\ isHolding) =>
           /\ points # << >>
           /\ points[Len(points)] = Strokes[pen.stroke][pen.sent]

C3_Witness ==
    /\ JustAfter("move")
    /\ isHolding
    /\ fired = 1
    /\ Len(points) > MinPoints
    /\ NoTimerPending

\* C4: right after a down event the buffer holds exactly the point of that
\* event, the holding flag is false, and exactly one timer is pending, with
\* the full threshold of 500 ms.
C4_DownResets ==
    JustAfter("down") =>
        /\ points = << Strokes[pen.stroke][1] >>
        /\ ~isHolding
        /\ FreshTimerPending
        /\ timers[holdTimeout] = 500

C4_Witness ==
    /\ JustAfter("down")
    /\ pending > 0
    /\ recognizedShape # NullShape
    /\ Len(points) = 1
    /\ FreshTimerPending

\* C5: right after an up event the buffer is empty, the holding flag is
\* false and no timer is pending, so the timer armed before the up cannot
\* fire.
C5_UpClears ==
    JustAfter("up") =>
        /\ points = << >>
        /\ ~isHolding
        /\ NoTimerPending

C5_Witness ==
    /\ JustAfter("up")
    /\ holdTimeout # 0
    /\ NoTimerPending
    /\ points = << >>

\* C6: right after a move received while not Holding the point is appended
\* and exactly one timer is pending, with the full threshold; and the
\* hold-timer callback runs only when at least 500 ms have passed since the
\* most recent down, move or up.
C6_MoveRestartsTimer ==
    /\ [](JustAfter("move") /\ ~isHolding =>
            /\ FreshTimerPending
            /\ points # << >>
            /\ points[Len(points)] = Strokes[pen.stroke][pen.sent])
    /\ [][IsTimerStep => quiet >= 500]_vars

C6_Witness ==
    /\ lastStep = "timer"
    /\ fired = 1
    /\ quiet >= 500
    /\ Len(points) >= 2
    /\ isHolding

\* the engine is Armed with enough points and time has passed since the
\* last event
ArmedAndQuiet ==
    /\ ~isHolding
    /\ ~NoTimerPending
    /\ Len(points) >= 10
    /\ quiet > 0

\* the hold-timer callback has just run, for the first time in this stroke,
\* and made a classification attempt
HoldAttempted ==
    /\ lastStep = "timer"
    /\ isHolding
    /\ fired = 1
    /\ calls # << >>

\* C7: when the engine is Armed with at least 10 points and stays without
\* events, the timer eventually fires, the engine is Holding and one
\* classification attempt has been made; otherwise a new event arrives first.
C7_HoldEventuallyFires == ArmedAndQuiet ~> (HoldAttempted \/ quiet = 0)

C7_Witness ==
    /\ HoldAttempted
    /\ Len(points) >= 10
    /\ quiet >= holdThreshold

\* C8: at most one hold timer is pending in every reachable state.
C8_AtMostOneTimer == Cardinality(DOMAIN timers) <= 1

C8_Witness ==
    /\ JustAfter("move")
    /\ Len(points) >= 3
    /\ DOMAIN timers = {holdTimeout}

\* C9: the buffer never holds more than 200 points, and it holds the most
\* recently received points since the last reset (all of them, or the last
\* 200 once more have been received), in arrival order.
C9_BufferIsRecentWindow ==
    /\ Len(points) <= 200
    /\ Len(points) = Min2(pen.sent, 200)
    /\ points = SubSeq(Strokes[pen.stroke], pen.sent - Len(points) + 1, pen.sent)

C9_Witness ==
    /\ pen.sent > 200
    /\ Len(points) = 200
    /\ points[1] = Strokes[pen.stroke][pen.sent - 199]
    /\ points[200] = Strokes[pen.stroke][pen.sent]

\* C10: when the hold-timer callback runs on a buffer of fewer than 10
\* points nothing is called (no classifier, no callback), no adapter call is
\* left pending, the Recognized Shape keeps its value and the engine is
\* Holding.
C10_ShortBufferNoAttempt ==
    [][(IsTimerStep /\ Len(points) < 10) =>
          /\ calls' = << >>
          /\ pending' = pending
          /\ recognizedShape' = recognizedShape
          /\ isHolding']_vars

C10_Witness ==
    /\ lastStep = "timer"
    /\ Len(points) < 10
    /\ isHolding
    /\ calls = << >>
    /\ recognizedShape # NullShape
    /\ externalRecognizer # NoAdapter

\* ------------------------------------------------------------------------
\* Properties of the classification attempt
\* ------------------------------------------------------------------------
AttemptSteps == {"timer", "resolve"}

\* the handler that ran last called op
Consulted(op) == \E i \in DOMAIN calls : calls[i].op = op

\* the step is a suspended recognizeShape resuming
IsResumeStep == lastStep' = "resolve" /\ pending' < pending

\* the adapter answered null and the built-in classifier found no shape
BothNull(a, cs) ==
    /\ a.ext = Null
    /\ cs # << >>
    /\ cs[Len(cs)].op = "detectShape"

C12_DownClearsShape ==
    lastStep = "down" => getRecognizedShape(recognizedShape) = NullShape

\* C12 amended: a down event does not clear the Recognized Shape: it leaves
\* it as it was, and getRecognizedShape() keeps returning the earlier shape
\* until a classification attempt overwrites or clears it.
C12_DownKeepsShape ==
    /\ [][lastStep' = "down" => recognizedShape' = recognizedShape]_vars
    /\ [][recognizedShape' # recognizedShape => lastStep' \in AttemptSteps]_vars

C12_Witness ==
    /\ JustAfter("down")
    /\ recognizedShape # NullShape
    /\ Len(points) = 1
    /\ pending = 0

\* C13: a classification attempt invokes the callback at most once, and not
\* at all when it leaves no shape, whatever the adapter and the callback do.
C13_CallbackAtMostOnce ==
    lastStep \in AttemptSteps =>
        /\ Len(Callbacks(calls)) <= 1
        /\ recognizedShape = NullShape => Callbacks(calls) = << >>

\* C14: whenever the callback is invoked with type t, getRecognizedShape()
\* called at that moment returns a non-null shape of type t.
C14_StoredBeforeNotified ==
    \A i \in DOMAIN calls :
        calls[i].op = "onShapeRecognized" =>
            /\ calls[i].seen # NullShape
            /\ calls[i].seen.type = calls[i].arg

C14_Witness ==
    /\ lastStep = "resolve"
    /\ attempt.ext = "circle"
    /\ calls = << Call("getParams", "circle"), Notify("circle", recognizedShape) >>
    /\ recognizedShape.type = "circle"

\* the adapter answered a non-null value and its extractor returned
AdapterSucceeded(a) ==
    /\ a.ext \notin {"none", "pending", Null, "throw"}
    /\ a.gp # "throw"

\* the adapter answered null or failed (recognize or its extractor threw)
AdapterGaveNone(a) ==
    \/ a.ext \in {Null, "throw"}
    \/ a.gp = "throw"

\* C15: with an adapter resolved an attempt consults the adapter first; a
\* non-null answer is stored with the parameters of the adapter's extractor
\* and the built-in classifier is not consulted; the built-in classifier is
\* consulted exactly when the adapter answers null or fails.
C15_AdapterFirst ==
    (lastStep \in AttemptSteps /\ attempt.ext \notin {"none", "pending"}) =>
        /\ lastStep = "timer" => calls[1] = Call("recognize", "")
        /\ AdapterSucceeded(attempt) =>
               /\ recognizedShape.type = attempt.ext
               /\ Consulted("getParams")
               /\ attempt.gp = "ext" => recognizedShape = MakeShape(attempt.ext, ExtParams)
               /\ ~Consulted("detectShape")
        /\ Consulted("detectShape") <=> AdapterGaveNone(attempt)

\* C16: an exception of the adapter (recognize or its extractor) never leaves
\* recognizeShape, the attempt goes on to the built-in classifier, the
\* adapter is kept and the next attempt consults it again.
C16_AdapterFailureContained ==
    /\ []((lastStep \in AttemptSteps /\ (attempt.ext = "throw" \/ attempt.gp = "throw")) =>
            /\ ~attempt.raised
            /\ Consulted("detectShape")
            /\ externalRecognizer # NoAdapter)
    /\ [][(IsTimerStep /\ Len(points) >= MinPoints /\ externalRecognizer # NoAdapter) =>
              calls'[1] = Call("recognize", "")]_vars
    /\ [][externalRecognizer # NoAdapter => externalRecognizer' = externalRecognizer]_vars

C16_Witness ==
    /\ lastStep = "timer"
    /\ attempt.ext = "throw"
    /\ ~attempt.raised
    /\ Consulted("detectShape")
    /\ recognizedShape.type = "rectangle"
    /\ externalRecognizer # NoAdapter

\* the engine is level with the reference engine: same stored shape, same
\* callbacks in the same order
LevelWithReference ==
    /\ ref.ok
    /\ ref.owed = << >>
    /\ recognizedShape = ref.shape

C18_ClosedTypeSet ==
    recognizedShape.type \in ShapeTypes \cup {Null}

\* C19: while a classification is suspended on the adapter, chainIn returns
\* each event and applies its transition (buffer, timer, holding flag) at
\* once, and leaves the classification suspended.
C19_AcceptsWhileSuspended ==
    /\ []((pending > 0 /\ lastStep \in ChainInSteps) => lastOut = SentEvent)
    /\ []((pending > 0 /\ JustAfter("down")) =>
            /\ points = << Strokes[pen.stroke][1] >>
            /\ ~isHolding
            /\ FreshTimerPending)
    /\ []((pending > 0 /\ JustAfter("move")) =>
            /\ points # << >>
            /\ points[Len(points)] = Strokes[pen.stroke][pen.sent]
            /\ IF isHolding THEN NoTimerPending ELSE FreshTimerPending)
    /\ []((pending > 0 /\ JustAfter("up")) =>
            /\ points = << >>
            /\ ~isHolding
            /\ NoTimerPending)
    /\ [][lastStep' \in ChainInSteps => pending' = pending]_vars

C19_Witness ==
    /\ pending > 0
    /\ JustAfter("move")
    /\ ~isHolding
    /\ stale
    /\ Len(points) >= 2
    /\ FreshTimerPending

Adoptable == {ProbeModule(mod) : mod \in registry} \ {NoAdapter}

\* the step is the settling of the awaited import
IsLoadStep == loading' # loading

\* C21: the candidates are awaited in list order; a candidate that fails to
\* load or has no capability is skipped for the next one; the first one with
\* a capability is adopted and no later candidate is loaded; when none is
\* adopted the adapter stays absent; once loadExternalRecognizer has returned
\* the adapter (present or absent) never changes.
C21_FirstCapableCandidate ==
    /\ [](loading \in 0..Len(candidates))
    /\ [](loading >= 1 => externalRecognizer = NoAdapter)
    /\ [][IsLoadStep =>
            \/ /\ externalRecognizer' \in Adoptable
               /\ loading' = 0
            \/ /\ externalRecognizer' = NoAdapter
               /\ loading' = IF loading < Len(candidates) THEN loading + 1 ELSE 0]_vars
    /\ [][externalRecognizer' # externalRecognizer => IsLoadStep]_vars
    /\ [][loading = 0 => (loading' = 0 /\ externalRecognizer' = externalRecognizer)]_vars

C21_Witness ==
    /\ loading = 0
    /\ externalRecognizer.kind = "helpers"
    /\ lastStep = "timer"
    /\ attempt.ext = "rectangle"
    /\ fired = 1

HeldWhole(names) ==
    /\ lastStep = "timer"
    /\ pen.stroke \in names
    /\ pen.sent = Len(Strokes[pen.stroke])

\* a console call was made and its promise has settled
Probed == probe.returned = "promise"

\* C23: on fewer than 10 points, whatever their geometry, detectShape
\* returns null, the promise of recognizeShapeFromPoints settles to null
\* whatever a provider would answer, and the timer callback calls neither a
\* classifier nor the callback and leaves the stored shape as it is.
C23_ShortSequencesYieldNothing ==
    /\ [](Len(points) < MinPoints => detectShape(points) = Null)
    /\ []((Probed /\ Len(probe.path) < MinPoints) => probe.settled = Null)
    /\ [][(IsTimerStep /\ Len(points) < MinPoints) =>
            /\ calls' = << >>
            /\ recognizedShape' = recognizedShape]_vars

C23_Witness ==
    /\ lastStep = "timer"
    /\ pen.stroke = "line200"
    /\ Len(points) = MinPoints - 1
    /\ calls = << >>
    /\ recognizedShape = NullShape
    /\ Probed
    /\ probe.provider = "circle"
    /\ probe.settled = Null

\* the bounding box of the buffered points is elongated
ElongatedBuffer ==
    LET b == BBox(points) IN Elongated(b.width, b.height)

\* C24: on 10 or more points whose bounding box has an aspect above 5 or
\* below 0.2 (infinite when the height is 0) the built-in classifier gives
\* Line or null, and Line exactly when the line test passes.
C24_ElongatedIsLineOrNull ==
    (lastStep = "timer" /\ Len(points) >= MinPoints /\ ElongatedBuffer) =>
        /\ recognizedShape.type \in {"line", Null}
        /\ (recognizedShape.type = "line") <=> isLine(points)
        /\ calls[1] = Call("detectShape", "")

C24_Witness ==
    /\ HeldWhole({"zigzag"})
    /\ ElongatedBuffer
    /\ ~isLine(points)
    /\ recognizedShape = NullShape
    /\ calls = << Call("detectShape", "") >>

\* the Line from (0,0) to (200,2)
Line200Shape ==
    [type |-> "line", x1 |-> 0, y1 |-> 0, x2 |-> 200 * Scale, y2 |-> 2 * Scale]

\* C25 as stated: a stroke of 20 or more collinear samples from (0,0) to
\* (200,2) is stored as the Line 0,0,200,2, and every Line the built-in
\* classifier stores runs from the first to the last buffered point.
C25_LineFromStrokeEnds ==
    /\ (HeldWhole({"line200", "line200long"}) /\ pen.sent >= 20) =>
           recognizedShape = Line200Shape
    /\ (lastStep = "timer" /\ recognizedShape.type = "line") =>
           recognizedShape = [type |-> "line",
                              x1 |-> points[1].x, y1 |-> points[1].y,
                              x2 |-> points[Len(points)].x, y2 |-> points[Len(points)].y]

\* C25 amended: a stroke of 20 to 200 collinear samples from (0,0) to
\* (200,2) is stored as the Line 0,0,200,2; drawn from (200,2) to (0,0) it
\* is stored as the Line 200,2,0,0, x1 > x2; every Line the built-in
\* classifier stores runs from the first to the last buffered point.
C25_LineFromFirstToLast ==
    /\ (HeldWhole({"line200", "line200long"}) /\ pen.sent >= 20
            /\ pen.sent <= BufferCapacity) =>
           recognizedShape = Line200Shape
    /\ HeldWhole({"line200rev"}) =>
           /\ recognizedShape = [type |-> "line", x1 |-> 200 * Scale, y1 |-> 2 * Scale,
                                 x2 |-> 0, y2 |-> 0]
           /\ recognizedShape.x1 > recognizedShape.x2
    /\ (lastStep = "timer" /\ recognizedShape.type = "line") =>
           recognizedShape = [type |-> "line",
                              x1 |-> points[1].x, y1 |-> points[1].y,
                              x2 |-> points[Len(points)].x, y2 |-> points[Len(points)].y]

C25_Witness ==
    /\ HeldWhole({"line200rev"})
    /\ Len(points) >= 20
    /\ recognizedShape.type = "line"
    /\ recognizedShape.x1 = 200 * Scale
    /\ recognizedShape.x2 = 0

\* the strokes that trace the perimeter of the box (0,0)-(100,60), a sample
\* on every corner
PerimeterStrokes == {"rect", "rectdense", "rectsparse"}

\* the Rectangle over the box (0,0)-(100,60)
BoxShape ==
    [type |-> "rectangle", x1 |-> 0, y1 |-> 0, x2 |-> 100 * Scale, y2 |-> 60 * Scale]

\* C26 as stated: a stroke tracing the perimeter of the box (0,0)-(100,60)
\* with a sample near each corner is stored as the Rectangle 0,0,100,60.
C26_PerimeterIsRectangle ==
    HeldWhole(PerimeterStrokes) => recognizedShape = BoxShape

\* C26 amended: a stroke of 12 to 200 samples tracing the perimeter of the
\* box (0,0)-(100,60) with a sample near each corner is stored as the
\* Rectangle over the bounding box of the buffered points, 0,0,100,60.
C26_DensePerimeterIsRectangle ==
    (HeldWhole(PerimeterStrokes) /\ Len(points) >= 12) =>
        /\ recognizedShape = BoxShape
        /\ LET b == BBox(points)
           IN  recognizedShape = [type |-> "rectangle", x1 |-> b.minX, y1 |-> b.minY,
                                  x2 |-> b.maxX, y2 |-> b.maxY]

C26_Witness ==
    /\ HeldWhole({"rectdense"})
    /\ Len(points) >= 12
    /\ recognizedShape = BoxShape
    /\ calls[Len(calls)].arg = "rectangle"

\* C27: 40 samples around the circle of center (100,100) and radius 50, each
\* less than 5 pixels off the circle, are stored as a Circle whose parameters
\* are the centroid minus and plus the average distance to it, each within
\* 5 pixels of 50, 50, 150, 150.
C27_JitteredCircle ==
    HeldWhole({"circleradial", "circleshaken"}) =>
        LET r == RadiusStats(points)
            radius == r.sumDist \div r.n
        IN  /\ Len(points) = 40
            /\ recognizedShape = [type |-> "circle",
                                  x1 |-> r.centerX - radius, y1 |-> r.centerY - radius,
                                  x2 |-> r.centerX + radius, y2 |-> r.centerY + radius]
            /\ Abs(recognizedShape.x1 - 50 * Scale) <= 5 * Scale
            /\ Abs(recognizedShape.y1 - 50 * Scale) <= 5 * Scale
            /\ Abs(recognizedShape.x2 - 150 * Scale) <= 5 * Scale
            /\ Abs(recognizedShape.y2 - 150 * Scale) <= 5 * Scale

C27_Witness ==
    /\ HeldWhole({"circleshaken"})
    /\ Len(points) = 40
    /\ recognizedShape.type = "circle"
    /\ recognizedShape.x1 # 50 * Scale
    /\ calls[Len(calls)].seen = recognizedShape

\* C28: with no provider to import, the promise of recognizeShapeFromPoints
\* settles to what detectShape returns on the same points.
C28_ConsoleAgreesWithBuiltin ==
    (Probed /\ probe.provider = "none") => probe.settled = detectShape(probe.path)

\* ------------------------------------------------------------------------
\* Properties of the accessor
\* ------------------------------------------------------------------------
\* the step is a call of getRecognizedShape()
IsGetStep == got'.reads > got.reads

\* the step is a consumer's assignment to the object the accessor returned
IsWriteStep == got.reads >= 1 /\ got'.reads = got.reads /\ got'.value # got.value

\* C29: getRecognizedShape() returns the stored shape and leaves the buffer,
\* the timer, the holding flag and the stored shape as they are; a second
\* call with no classification attempt since the first returns what the
\* first returned.
C29_AccessorIsPureRead ==
    /\ [][IsGetStep =>
            /\ got'.value = recognizedShape
            /\ UNCHANGED << points, timers, holdTimeout, isHolding, recognizedShape >>]_vars
    /\ [][(IsGetStep /\ got.reads >= 1) => got'.value = got.value]_vars

C29_Witness ==
    /\ got.reads = 2
    /\ got.value = BoxShape
    /\ recognizedShape = BoxShape
    /\ lastStep = "up"

\* C30: an assignment a consumer makes to the value getRecognizedShape()
\* returned leaves the shape the engine holds as it was.
C30_ConsumerWriteLeavesShape ==
    [][IsWriteStep => recognizedShape' = recognizedShape]_vars

\* ------------------------------------------------------------------------
\* Properties of the built-in tests
\* ------------------------------------------------------------------------
\* the chord from the first to the last buffered point is at least 15 pixels
ChordAtLeast15 ==
    LET dx == points[Len(points)].x - points[1].x
        dy == points[Len(points)].y - points[1].y
    IN  dx * dx + dy * dy >= 15 * Scale * 15 * Scale

\* C31: the built-in classifier of a timer-triggered attempt gives Line only
\* when the chord from the first to the last point is at least 15 pixels
\* long; a closed stroke or a stationary hold is never a Line.
C31_LineNeedsChord ==
    (lastStep = "timer" /\ recognizedShape.type = "line") => ChordAtLeast15

\* the bounding box of the buffered points has 0.7 <= aspect <= 1.3
AspectWithinCircleBounds ==
    LET b == BBox(points)
    IN  b.height # 0 /\ 10 * b.width >= 7 * b.height /\ 10 * b.width <= 13 * b.height

\* C32: on 10 or more points whose bounding box has an aspect from 0.7 to
\* 1.3, both bounds included, the built-in classifier returns Circle when
\* the Circle test passes.
C32_CircleBoundsInclusive ==
    (lastStep = "timer" /\ Len(points) >= MinPoints /\ AspectWithinCircleBounds
        /\ isCircle(points)) => recognizedShape.type = "circle"

\* the first of the Circle test (bounding box of aspect 0.7 to 1.3 only),
\* the Rectangle test and the Line test that the buffered points pass
FirstPassingTest ==
    IF AspectWithinCircleBounds /\ isCircle(points) THEN "circle"
    ELSE IF isRectangle(points) THEN "rectangle"
    ELSE IF isLine(points) THEN "line"
    ELSE Null

\* C33: on 10 or more points whose bounding box is not elongated the
\* built-in classifier returns the first of Circle (near-square only),
\* Rectangle, Line whose test passes, and null only when none passes.
C33_FirstPassingTestWins ==
    (lastStep = "timer" /\ Len(points) >= MinPoints /\ ~ElongatedBuffer) =>
        recognizedShape.type = FirstPassingTest

\* ------------------------------------------------------------------------
\* Properties of the adapter wiring
\* ------------------------------------------------------------------------
\* the capability of highest priority among those a module exposes
HighestCapability(mod) ==
    IF mod.detectShape THEN "detectShape"
    ELSE IF mod.helpers THEN "helpers"
    ELSE "scan"

\* C34: when a module is adopted, the adapter is wired from the capability of
\* highest priority the module exposes (detectShape over the fit helpers over
\* the export-name scan), and it extracts parameters through the module's
\* getShapeParams only when it was wired from detectShape.
C34_HighestCapabilityWired ==
    externalRecognizer # NoAdapter =>
        \A mod \in registry :
            /\ externalRecognizer.kind = HighestCapability(mod)
            /\ (mod.detectShape => externalRecognizer.extParams = mod.getShapeParams)

C34_Witness ==
    /\ \E mod \in registry : mod.detectShape /\ mod.helpers /\ mod.named
    /\ externalRecognizer # NoAdapter
    /\ externalRecognizer.kind = "detectShape"
    /\ lastStep = "timer"
    /\ recognizedShape.type = "circle"

\* C38: an adopted adapter is wired from at least one callable function.
C38_AdoptedIsCallable ==
    externalRecognizer # NoAdapter => externalRecognizer.callable

\* ------------------------------------------------------------------------
\* Properties of the events chainIn does not handle
\* ------------------------------------------------------------------------
\* the step is a chainIn call with an event that is neither down, move nor up
IsOtherStep == lastStep' = "other" /\ quiet' = quiet /\ loading' = loading

\* C35: an event whose type is none of down, move and up (a 'line' event) is
\* only passed through: chainIn returns it, and the buffer, the pending timer
\* and its handle, the holding flag and the recognized shape stay as they
\* are; no classification is attempted and no callback is invoked.
C35_OtherEventsOnlyPassThrough ==
    [][IsOtherStep =>
          /\ lastOut' = LineEvent
          /\ UNCHANGED << points, timers, holdTimeout, isHolding, recognizedShape, pending >>
          /\ calls' = << >>]_vars

C35_Witness ==
    /\ lastStep = "other"
    /\ lastOut = LineEvent
    /\ ~NoTimerPending
    /\ Len(points) >= 2
    /\ recognizedShape # NullShape

\* ------------------------------------------------------------------------
\* Properties of the engine outside a stroke
\* ------------------------------------------------------------------------
\* C36: as long as no down event has arrived the engine is Idle: no timer is
\* pending, the timer callback has not run, and no classification call and no
\* callback is made, whatever move, up and other events arrive.
C36_IdleNeverClassifies ==
    /\ NoTimerPending
    /\ fired = 0
    /\ calls = << >>
    /\ recognizedShape = NullShape

\* ------------------------------------------------------------------------
\* Properties of the buffer a resumed attempt reads
\* ------------------------------------------------------------------------
\* C37: when a suspended classification resumes and extracts parameters, the
\* buffer it reads is the one the attempt started on: no down event has reset
\* it in between and it still holds the 10 or more points it was gated on.
C37_ParamsFromAttemptBuffer ==
    [][(IsResumeStep /\ attempt'.gp # "unused") =>
          (~stale /\ Len(points) >= MinPoints)]_vars

\* ------------------------------------------------------------------------
\* Properties of the events EaselBrush forwards
\* ------------------------------------------------------------------------
\* C39: once the pointer of a stroke whose pointerdown was forwarded as a
\* down event is lifted, the pointerup was forwarded as an up event, so no
\* hold timer is pending and the timer callback has not run since.
C39_ReleaseIsForwarded ==
    (~brush.pressed /\ brush.downSent) =>
        /\ brush.upSent
        /\ NoTimerPending
        /\ fired = 0

====
